---- MODULE Spec2Model ----
(***************************************************************************)
(* Model of the document handler of sidetree-svc-go                        *)
(* (pkg/dochandler/handler.go): ProcessOperation, run by concurrent        *)
(* callers against a shared unpublished-operation store and batch writer,  *)
(* and ResolveDocument.                                                    *)
(*                                                                         *)
(* Strings that the handler slices or searches (identifiers, namespaces,   *)
(* suffixes) are sequences of one-character strings.  Error messages are   *)
(* sequences of text fragments, concatenated the way fmt.Errorf does.      *)
(* A Go pointer or error that may be nil is a sequence of length 0 or 1    *)
(* (errors: the empty message is nil).                                     *)
(***************************************************************************)
EXTENDS Integers, Sequences, FiniteSets, TLC

(***************************************************************************)
(* Bounds of the model.                                                    *)
(***************************************************************************)
\* number of concurrent ProcessOperation callers
NumCalls == 2
\* longest identifier handed to ResolveDocument
MaxIdLen == 5
MaxHintIdLen == 6
MaxPartLen == 2
NumMixedCalls == 1

Calls == 1 .. NumCalls

Nil == <<>>
Some(x) == <<x>>

(***************************************************************************)
(* strings                                                                 *)
(***************************************************************************)
NamespaceDelimiter == ":"

\* the characters identifiers are made of
Chars == {"a", "b", NamespaceDelimiter}

RECURSIVE StringsUpTo(_)
StringsUpTo(n) ==
    IF n = 0 THEN {<<>>}
    ELSE LET shorter == StringsUpTo(n - 1)
         IN  shorter \cup {Append(s, c) : s \in {t \in shorter : Len(t) = n - 1}, c \in Chars}

\* strings.HasPrefix(s, prefix)
HasPrefix(s, prefix) ==
    /\ Len(prefix) <= Len(s)
    /\ SubSeq(s, 1, Len(prefix)) = prefix

\* the 0-based positions at which sub occurs in s
Occurrences(s, sub) ==
    {i \in 0 .. (Len(s) - Len(sub)) : SubSeq(s, i + 1, i + Len(sub)) = sub}

Min(S) == CHOOSE x \in S : \A y \in S : x <= y
Max(S) == CHOOSE x \in S : \A y \in S : x >= y

\* strings.Index(s, sub) and strings.LastIndex(s, sub), 0-based, -1 when absent
Index(s, sub) ==
    IF Occurrences(s, sub) = {} THEN -1 ELSE Min(Occurrences(s, sub))
LastIndex(s, sub) ==
    IF Occurrences(s, sub) = {} THEN -1 ELSE Max(Occurrences(s, sub))

\* the Go slice s[from:to] and s[from:], 0-based, to exclusive
Slice(s, from, to) == SubSeq(s, from + 1, to)
SliceFrom(s, from) == SubSeq(s, from + 1, Len(s))

\* strings.Contains on an error message, for a fragment of the message
Contains(msg, fragment) == \E i \in DOMAIN msg : msg[i] = fragment

\* msg contains the characters of s next to each other
Mentions(msg, s) == Occurrences(msg, s) # {}

RECURSIVE Join(_)
\* fmt's %v of a []string: the elements separated by blanks
Join(list) ==
    IF list = <<>> THEN <<>>
    ELSE IF Len(list) = 1 THEN list[1]
    ELSE list[1] \o <<" ">> \o Join(Tail(list))

(***************************************************************************)
(* errors                                                                  *)
(***************************************************************************)
badRequest == "bad request"

\* fmt.Errorf("%s: %s", badRequest, err.Error())
BadRequestError(err) == <<badRequest, ": ">> \o err

IsBadRequest(err) == Len(err) >= 2 /\ err[1] = badRequest /\ err[2] = ": "

(***************************************************************************)
(* operations and protocol versions                                        *)
(***************************************************************************)
TypeCreate == "create"
TypeUpdate == "update"
TypeRecover == "recover"
TypeDeactivate == "deactivate"
OperationTypes == {TypeCreate, TypeUpdate, TypeRecover, TypeDeactivate}

\* the protocol versions the client knows, by genesis time
Versions ==
    { [GenesisTime |-> 0, MultihashAlgorithm |-> 18],
      [GenesisTime |-> 10, MultihashAlgorithm |-> 19] }

\* the transaction times callers pass to ProcessOperation
ProtocolTimes == {v.GenesisTime : v \in Versions}

ClientErrors == {<<"protocol parameters are not defined">>}

\* protocol.Client.Get: the version at the given transaction time, or an error
GetOutcomes(transactionTime) ==
    [err : ClientErrors, pv : {Nil}]
      \cup [err : {Nil},
            pv : {Some(v) : v \in {w \in Versions : w.GenesisTime = transactionTime}}]

\* protocol.Client.Current: the latest version, or an error
CurrentOutcomes ==
    [err : ClientErrors, pv : {Nil}]
      \cup [err : {Nil},
            pv : {Some(v) : v \in {w \in Versions :
                                     \A x \in Versions : x.GenesisTime <= w.GenesisTime}}]

\* the suffix-data objects of create requests
SuffixData == {"x", "y"}

\* hashing.CalculateModelMultihash(suffixData, code), base64url-encoded: a
\* function of both arguments
CalculateModelMultihash(suffixData, code) ==
    IF (suffixData = "x") = (code = 18) THEN <<"a">> ELSE <<"b">>

\* the unique suffixes of the model
Suffixes == {CalculateModelMultihash(d, v.MultihashAlgorithm) : d \in SuffixData, v \in Versions}

\* the anchor origin a create or recover request carries
RequestOrigin == "origin-of-request"
\* the anchor origin of the resolved state
ResolvedOrigin == "origin-of-resolution"

\* Operation requests, as the bytes handed to the parser.  "garbage" is a buffer
\* that is no JSON, "unsupported" a request of an unknown type.  ref is the
\* suffix-data of a create and the didSuffix of the other operations; valid
\* says whether the version's validator accepts the request.
WellFormedRequests ==
    [type : {TypeCreate}, ref : {<<d>> : d \in SuffixData}, valid : BOOLEAN]
      \cup [type : OperationTypes \ {TypeCreate}, ref : Suffixes, valid : BOOLEAN]
Requests ==
    WellFormedRequests
      \cup [type : {"garbage", "unsupported"}, ref : {<<"x">>}, valid : {FALSE}]

\* OperationParser.Parse(namespace, operationBuffer)
Parse(namespace, request, pv) ==
    IF request.type \notin OperationTypes
    THEN [err |-> <<"parse operation: operation type [", request.type, "] not supported">>,
          op |-> Nil]
    ELSE [err |-> Nil,
          op |-> Some([Type |-> request.type,
                       Namespace |-> namespace,
                       UniqueSuffix |->
                           IF request.type = TypeCreate
                           THEN CalculateModelMultihash(request.ref[1], pv.MultihashAlgorithm)
                           ELSE request.ref,
                       OperationRequest |-> request,
                       AnchorOrigin |->
                           IF request.type \in {TypeCreate, TypeRecover}
                           THEN RequestOrigin ELSE "",
                       Properties |-> <<>>])]

\* validateOperation that never reports the validator's error
validateOperation_AcceptsAll(op) == Nil

\* DocumentHandler.validateOperation: for a create GetCreateResult,
\* MarshalCanonical and IsValidOriginalDocument, for the others IsValidPayload
validateOperation(op) ==
    IF op.Type = TypeCreate
    THEN IF op.OperationRequest.valid THEN Nil ELSE <<"invalid original document">>
    ELSE IF op.OperationRequest.valid THEN Nil ELSE <<"invalid payload">>

\* the steps validateOperation calls
validateSteps(op) ==
    IF op.Type = TypeCreate
    THEN <<"validate.GetCreateResult", "validate.IsValidOriginalDocument">>
    ELSE <<"validate.IsValidPayload">>

(***************************************************************************)
(* the handler and its collaborators                                       *)
(***************************************************************************)
VARIABLES
    dh,        \* the DocumentHandler built by New
    store,     \* the unpublished operation store: suffix -> the entry, if any
    batch,     \* what the batch writer accepted
    call,      \* the ProcessOperation calls: position, locals, result
    overlap,   \* the calls that ran while another call for the same suffix ran
    rd,        \* the last ResolveDocument call: input, calls made, result
    gh         \* the last call of the exported GetHint: arguments and result

vars == <<dh, store, batch, call, overlap, rd, gh>>

\* WithDomain, WithLabel, WithUnpublishedOperationStore
WithDomain(domain) == [opt |-> "WithDomain", domain |-> domain]
WithLabel(label) == [opt |-> "WithLabel", label |-> label]
WithUnpublishedOperationStore(operationTypes) ==
    [opt |-> "WithUnpublishedOperationStore", operationTypes |-> operationTypes]

ApplyOption(h, o) ==
    CASE o.opt = "WithDomain" -> [h EXCEPT !.domain = o.domain]
      [] o.opt = "WithLabel" -> [h EXCEPT !.label = o.label]
      [] o.opt = "WithUnpublishedOperationStore" ->
            [h EXCEPT !.unpublishedOperationStore = "store",
                      !.unpublishedOperationTypes = o.operationTypes]

RECURSIVE ApplyOptions(_, _)
ApplyOptions(h, opts) ==
    IF opts = <<>> THEN h ELSE ApplyOptions(ApplyOption(h, Head(opts)), Tail(opts))

\* New(namespace, aliases, pc, writer, processor, metrics, opts...)
New(namespace, aliases, opts) ==
    ApplyOptions([protocol |-> "pc",
                  processor |-> "processor",
                  decorator |-> "defaultOperationDecorator",
                  writer |-> "writer",
                  namespace |-> namespace,
                  aliases |-> aliases,
                  domain |-> <<>>,
                  label |-> <<>>,
                  metrics |-> "metrics",
                  unpublishedOperationStore |-> "noop",
                  unpublishedOperationTypes |-> {}],
                 opts)

\* contains(values, value)
contains(values, value) == value \in values

\* errors of the collaborators
ProcessorErrors == {<<"document ", "not found">>, <<"processor unavailable">>}
StoreErrors == {<<"store unavailable">>}
WriterErrors == {<<"queue is full">>}
TransformerErrors == {<<"transform failed: key ", "not found">>, <<"transform failed">>}
CreateResultErrors == {<<"compose failed">>}

\* the resolution models the processor may answer with
ResolutionModels ==
    [Doc : {"resolved-doc"},
     PublishedOperations : {0, 1},
     Deactivated : BOOLEAN,
     AnchorOrigin : {ResolvedOrigin}]

\* operationProcessor.Resolve(uniqueSuffix, opts...)
ResolveOutcomes ==
    [err : ProcessorErrors, rm : {Nil}] \cup [err : {Nil}, rm : {Some(m) : m \in ResolutionModels}]

\* the wall clock, time.Now().Unix()
Clock == {1}

NoRequest == [type |-> "garbage", ref |-> <<"x">>, valid |-> FALSE]

IdleCall ==
    [pc |-> "idle", req |-> NoRequest, protocolVersion |-> 0, pv |-> Nil, op |-> Nil,
     unpublishedOp |-> Nil, resolved |-> Nil, err |-> Nil, doc |-> Nil, ti |-> Nil,
     trace |-> <<>>, held |-> "unknown"]

NoResolve ==
    [pc |-> "none", id |-> <<>>, ns |-> <<>>, shortFormDID |-> <<>>, createReq |-> Nil,
     suffix |-> <<>>, resolved |-> Nil, resolveErr |-> Nil, fallback |-> FALSE, hint |-> Nil, ti |-> Nil,
     idTi |-> Nil,
     doc |-> Nil, err |-> Nil, trace |-> <<>>]

NoHint == [pc |-> "none", id |-> <<>>, namespace |-> <<>>, suffix |-> <<>>, hint |-> <<>>, err |-> Nil]

\* a call that has parsed its operation and has not returned
Active(c) == call[c].pc \notin {"idle", "done"}

\* the return of a call: the result and whether the store holds an entry for
\* the operation's suffix at that moment
Return(rec, doc, err, st) ==
    [rec EXCEPT !.pc = "done", !.doc = doc, !.err = err,
                !.held = IF rec.op = Nil THEN "unknown"
                         ELSE IF st[rec.op[1].UniqueSuffix] # Nil THEN "yes" ELSE "no"]

(***************************************************************************)
(* ProcessOperation                                                        *)
(***************************************************************************)
DeactivatedError == <<"document ", "has been deactivated", ", no further operations are allowed">>

\* Decorate without the test of internalResult.Deactivated
Decorate_NoDeactivatedTest(op, resolved) ==
    IF op.Type # TypeCreate
    THEN IF resolved.err # Nil
         THEN [op |-> Nil, err |-> resolved.err]
         ELSE IF op.Type = TypeUpdate \/ op.Type = TypeDeactivate
         THEN [op |-> Some([op EXCEPT !.AnchorOrigin = resolved.rm[1].AnchorOrigin]), err |-> Nil]
         ELSE [op |-> Some(op), err |-> Nil]
    ELSE [op |-> Some(op), err |-> Nil]

\* Decorate taking the resolved anchor origin for every operation it resolves
Decorate_AnchorOriginOfEveryType(op, resolved) ==
    IF op.Type # TypeCreate
    THEN IF resolved.err # Nil
         THEN [op |-> Nil, err |-> resolved.err]
         ELSE IF resolved.rm[1].Deactivated
         THEN [op |-> Nil, err |-> DeactivatedError]
         ELSE [op |-> Some([op EXCEPT !.AnchorOrigin = resolved.rm[1].AnchorOrigin]), err |-> Nil]
    ELSE [op |-> Some(op), err |-> Nil]

\* defaultOperationDecorator.Decorate, given the processor's answer to Resolve
\* (read only for an operation that is no create)
Decorate(op, resolved) ==
    IF op.Type # TypeCreate
    THEN IF resolved.err # Nil
         THEN [op |-> Nil, err |-> resolved.err]
         ELSE IF resolved.rm[1].Deactivated
         THEN [op |-> Nil, err |-> DeactivatedError]
         ELSE IF op.Type = TypeUpdate \/ op.Type = TypeDeactivate
         THEN [op |-> Some([op EXCEPT !.AnchorOrigin = resolved.rm[1].AnchorOrigin]), err |-> Nil]
         ELSE [op |-> Some(op), err |-> Nil]
    ELSE [op |-> Some(op), err |-> Nil]

\* getUnpublishedOperation without the test of the configured types
getUnpublishedOperation_EveryType(h, op, pv, now) ==
    Some([Type |-> op.Type,
          UniqueSuffix |-> op.UniqueSuffix,
          OperationRequest |-> op.OperationRequest,
          TransactionTime |-> now,
          ProtocolVersion |-> pv.GenesisTime,
          AnchorOrigin |-> op.AnchorOrigin])

\* DocumentHandler.getUnpublishedOperation
getUnpublishedOperation(h, op, pv, now) ==
    IF ~contains(h.unpublishedOperationTypes, op.Type)
    THEN Nil
    ELSE Some([Type |-> op.Type,
               UniqueSuffix |-> op.UniqueSuffix,
               OperationRequest |-> op.OperationRequest,
               TransactionTime |-> now,
               ProtocolVersion |-> pv.GenesisTime,
               AnchorOrigin |-> op.AnchorOrigin])

\* addToBatch taking the unique suffix from the request instead of the operation
QueuedOperation_SuffixOfRequest(h, op) ==
    [Type |-> op.Type,
     Namespace |-> h.namespace,
     UniqueSuffix |-> op.OperationRequest.ref,
     OperationRequest |-> op.OperationRequest,
     AnchorOrigin |-> op.AnchorOrigin,
     Properties |-> op.Properties]

\* the QueuedOperation addToBatch builds
QueuedOperation(h, op) ==
    [Type |-> op.Type,
     Namespace |-> h.namespace,
     UniqueSuffix |-> op.UniqueSuffix,
     OperationRequest |-> op.OperationRequest,
     AnchorOrigin |-> op.AnchorOrigin,
     Properties |-> op.Properties]

\* unpublishedOperationStore.Put and Delete: the no-op store never fails and
\* keeps nothing; the configured store is keyed by unique suffix
PutOutcomes(h) == IF h.unpublishedOperationStore = "noop" THEN {Nil} ELSE {Nil} \cup StoreErrors
DeleteOutcomes(h) == IF h.unpublishedOperationStore = "noop" THEN {Nil} ELSE {Nil} \cup StoreErrors
StorePut(h, st, aop) ==
    IF h.unpublishedOperationStore = "noop" THEN st
    ELSE [st EXCEPT ![aop.UniqueSuffix] = Some(aop)]
StoreDelete(h, st, aop) ==
    IF h.unpublishedOperationStore = "noop" THEN st
    ELSE [st EXCEPT ![aop.UniqueSuffix] = Nil]

\* addOperationToUnpublishedOpsStore with the error of Put dropped
addOperationToUnpublishedOpsStore_DropsError(h, st, unpublishedOp, perr) ==
    IF unpublishedOp = Nil
    THEN [store |-> st, err |-> Nil, trace |-> <<>>]
    ELSE IF perr = Nil
    THEN [store |-> StorePut(h, st, unpublishedOp[1]), err |-> Nil, trace |-> <<"Put.ok">>]
    ELSE [store |-> st, err |-> Nil, trace |-> <<"Put.err">>]

\* DocumentHandler.addOperationToUnpublishedOpsStore, given the outcome of Put
addOperationToUnpublishedOpsStore(h, st, unpublishedOp, perr) ==
    IF unpublishedOp = Nil
    THEN [store |-> st, err |-> Nil, trace |-> <<>>]
    ELSE IF perr = Nil
    THEN [store |-> StorePut(h, st, unpublishedOp[1]), err |-> Nil, trace |-> <<"Put.ok">>]
    ELSE [store |-> st, err |-> perr, trace |-> <<"Put.err">>]

\* deleteOperationFromUnpublishedOpsStore that hands Delete an operation of
\* another unique suffix than the one that was Put
deleteOperationFromUnpublishedOpsStore_OtherSuffix(h, st, unpublishedOp, derr) ==
    IF unpublishedOp = Nil
    THEN [store |-> st, trace |-> <<>>]
    ELSE IF derr = Nil
    THEN [store |-> StoreDelete(h, st,
                      [unpublishedOp[1] EXCEPT !.UniqueSuffix =
                          CHOOSE s \in Suffixes : s # unpublishedOp[1].UniqueSuffix]),
          trace |-> <<"Delete.ok">>]
    ELSE [store |-> st, trace |-> <<"Delete.err">>]

\* DocumentHandler.deleteOperationFromUnpublishedOpsStore, given the outcome of
\* Delete: its error is logged and dropped
deleteOperationFromUnpublishedOpsStore(h, st, unpublishedOp, derr) ==
    IF unpublishedOp = Nil
    THEN [store |-> st, trace |-> <<>>]
    ELSE IF derr = Nil
    THEN [store |-> StoreDelete(h, st, unpublishedOp[1]), trace |-> <<"Delete.ok">>]
    ELSE [store |-> st, trace |-> <<"Delete.err">>]

\* fmt.Errorf("failed to add operation for suffix[%s] to unpublished operation store: %s", ...)
PutFailedError(suffix, err) ==
    <<"failed to add operation for suffix[">> \o suffix
      \o <<"] to unpublished operation store: ">> \o err

\* docutil.GetCreateResult(op, pv): the resolution model of a create
GetCreateResult(op) ==
    [Doc |-> <<"created-doc">> \o op.OperationRequest.ref,
     PublishedOperations |-> 0,
     Deactivated |-> FALSE,
     AnchorOrigin |-> op.AnchorOrigin]

\* docutil.GetTransformationInfoForUnpublished(namespace, domain, label, suffix, createRequestJCS)
GetTransformationInfoForUnpublished(namespace, domain, label, suffix, createRequestJCS) ==
    [published |-> FALSE, namespace |-> namespace, domain |-> domain, label |-> label,
     id |-> <<>>, suffix |-> suffix, createRequestJCS |-> createRequestJCS,
     internalResult |-> Nil]

\* docutil.GetTransformationInfoForPublished(namespace, id, suffix, internalResult)
GetTransformationInfoForPublished(namespace, id, suffix, internalResult) ==
    [published |-> TRUE, namespace |-> namespace, domain |-> <<>>, label |-> <<>>,
     id |-> id, suffix |-> suffix, createRequestJCS |-> <<>>,
     internalResult |-> Some(internalResult)]

\* DocumentTransformer.TransformDocument(rm, ti), when it succeeds
TransformDocument(rm, ti) == [rm |-> rm, ti |-> ti]

\* lines 158-200: version select, parse, validate
Begin(c, operationBuffer, protocolVersion) ==
    /\ call[c].pc = "idle"
    /\ \E g \in GetOutcomes(protocolVersion) :
         LET rec0 == [IdleCall EXCEPT !.req = operationBuffer,
                                      !.protocolVersion = protocolVersion,
                                      !.trace = <<"protocol.Get">>]
         IN  IF g.err # Nil
             THEN /\ call' = [call EXCEPT ![c] =
                                Return([rec0 EXCEPT !.trace = @ \o <<"Get.err">>],
                                       Nil, g.err, store)]
                  /\ UNCHANGED overlap
             ELSE LET parsed == Parse(dh.namespace, operationBuffer, g.pv[1])
                      rec1 == [rec0 EXCEPT !.pv = g.pv, !.trace = @ \o <<"Get.ok", "Parse">>]
                  IN  IF parsed.err # Nil
                      THEN /\ call' = [call EXCEPT ![c] =
                                         Return([rec1 EXCEPT !.trace = @ \o <<"Parse.err">>],
                                                Nil, BadRequestError(parsed.err), store)]
                           /\ UNCHANGED overlap
                      ELSE LET op == parsed.op[1]
                               verr == validateOperation(op)
                               rec2 == [rec1 EXCEPT !.op = parsed.op,
                                                    !.trace = @ \o <<"Parse.ok">> \o validateSteps(op)]
                               others == {d \in Calls \ {c} :
                                            /\ Active(d)
                                            /\ call[d].op[1].UniqueSuffix = op.UniqueSuffix}
                           IN  IF verr # Nil
                               THEN /\ call' = [call EXCEPT ![c] =
                                                  Return([rec2 EXCEPT !.trace = @ \o <<"validate.err">>],
                                                         Nil, BadRequestError(verr), store)]
                                    /\ UNCHANGED overlap
                               ELSE /\ call' = [call EXCEPT ![c] =
                                                  [rec2 EXCEPT !.trace = @ \o <<"validate.ok">>,
                                                               !.pc = "decorate"]]
                                    /\ overlap' = IF others = {} THEN overlap
                                                  ELSE overlap \cup others \cup {c}
    /\ UNCHANGED <<dh, store, batch, rd, gh>>

\* a decorator that asks the processor about every operation, creates included
DecorateStep_ResolvesEveryType(c) ==
    /\ call[c].pc = "decorate"
    /\ LET rec == call[c]
           op == rec.op[1]
       IN  \E r \in ResolveOutcomes :
             LET d == IF r.err # Nil THEN [op |-> Nil, err |-> r.err]
                      ELSE IF r.rm[1].Deactivated THEN [op |-> Nil, err |-> DeactivatedError]
                      ELSE Decorate(op, r)
                 rec1 == [rec EXCEPT !.trace = @ \o <<"decorate.Resolve">>,
                                     !.resolved = r.rm]
             IN  IF d.err # Nil
                 THEN call' = [call EXCEPT ![c] =
                                 Return([rec1 EXCEPT !.trace = @ \o <<"decorate.err">>],
                                        Nil, BadRequestError(d.err), store)]
                 ELSE call' = [call EXCEPT ![c] =
                                 [rec1 EXCEPT !.op = d.op,
                                              !.trace = @ \o <<"decorate.ok">>,
                                              !.pc = "put"]]
    /\ UNCHANGED <<dh, store, batch, overlap, rd, gh>>

\* lines 195-198: r.decorator.Decorate(op)
DecorateStep(c) ==
    /\ call[c].pc = "decorate"
    /\ LET rec == call[c]
           op == rec.op[1]
       IN  IF op.Type # TypeCreate
           THEN \E r \in ResolveOutcomes :
                  LET d == Decorate(op, r)
                      rec1 == [rec EXCEPT !.trace = @ \o <<"decorate.Resolve">>,
                                          !.resolved = r.rm]
                  IN  IF d.err # Nil
                      THEN call' = [call EXCEPT ![c] =
                                      Return([rec1 EXCEPT !.trace = @ \o <<"decorate.err">>],
                                             Nil, BadRequestError(d.err), store)]
                      ELSE call' = [call EXCEPT ![c] =
                                      [rec1 EXCEPT !.op = d.op,
                                                   !.trace = @ \o <<"decorate.ok">>,
                                                   !.pc = "put"]]
           ELSE LET d == Decorate(op, [err |-> Nil, rm |-> Nil])
                IN  call' = [call EXCEPT ![c] =
                               [rec EXCEPT !.op = d.op,
                                           !.trace = @ \o <<"decorate.ok">>,
                                           !.pc = "put"]]
    /\ UNCHANGED <<dh, store, batch, overlap, rd, gh>>

\* a Put failure answered with the compensating delete
AddUnpublished_DeletesOnFailure(c) ==
    /\ call[c].pc = "put"
    /\ \E now \in Clock, perr \in PutOutcomes(dh) :
         LET rec == call[c]
             op == rec.op[1]
             unpublishedOp == getUnpublishedOperation(dh, op, rec.pv[1], now)
             put == addOperationToUnpublishedOpsStore(dh, store, unpublishedOp, perr)
             rec1 == [rec EXCEPT !.unpublishedOp = unpublishedOp, !.trace = @ \o put.trace]
         IN  /\ store' = put.store
             /\ IF put.err # Nil
                THEN call' = [call EXCEPT ![c] =
                                [rec1 EXCEPT !.err = PutFailedError(op.UniqueSuffix, put.err),
                                             !.pc = "delete"]]
                ELSE call' = [call EXCEPT ![c] = [rec1 EXCEPT !.pc = "add"]]
    /\ UNCHANGED <<dh, batch, overlap, rd, gh>>

\* lines 202-209: getUnpublishedOperation and addOperationToUnpublishedOpsStore
AddUnpublished(c) ==
    /\ call[c].pc = "put"
    /\ \E now \in Clock, perr \in PutOutcomes(dh) :
         LET rec == call[c]
             op == rec.op[1]
             unpublishedOp == getUnpublishedOperation(dh, op, rec.pv[1], now)
             put == addOperationToUnpublishedOpsStore(dh, store, unpublishedOp, perr)
             rec1 == [rec EXCEPT !.unpublishedOp = unpublishedOp, !.trace = @ \o put.trace]
         IN  /\ store' = put.store
             /\ IF put.err # Nil
                THEN call' = [call EXCEPT ![c] =
                                Return(rec1, Nil, PutFailedError(op.UniqueSuffix, put.err), store')]
                ELSE call' = [call EXCEPT ![c] = [rec1 EXCEPT !.pc = "add"]]
    /\ UNCHANGED <<dh, batch, overlap, rd, gh>>

\* the test of line 229 answering yes for every type
ReturnsDocument_EveryType(op) == TRUE

\* line 229: a create operation also returns the document
ReturnsDocument(op) == op.Type = TypeCreate

\* AddToBatch that runs the compensating delete whatever Add returned
AddToBatch_AlwaysDeletes(c) ==
    /\ call[c].pc = "add"
    /\ LET rec == call[c]
           op == rec.op[1]
       IN  \E werr \in {Nil} \cup WriterErrors :
             /\ batch' = IF werr = Nil
                         THEN batch \cup {[call |-> c,
                                           op |-> QueuedOperation(dh, op),
                                           protocolVersion |-> rec.pv[1].GenesisTime]}
                         ELSE batch
             /\ call' = [call EXCEPT ![c] =
                           [rec EXCEPT !.trace = @ \o <<IF werr = Nil THEN "Add.ok" ELSE "Add.err">>,
                                       !.err = werr,
                                       !.pc = "delete"]]
    /\ UNCHANGED <<dh, store, overlap, rd, gh>>

\* lines 216-233: addToBatch; an update, recover or deactivate returns here
AddToBatch(c) ==
    /\ call[c].pc = "add"
    /\ LET rec == call[c]
           op == rec.op[1]
       IN  \E werr \in {Nil} \cup WriterErrors :
             IF werr = Nil
             THEN /\ batch' = batch \cup {[call |-> c,
                                          op |-> QueuedOperation(dh, op),
                                          protocolVersion |-> rec.pv[1].GenesisTime]}
                  /\ LET rec1 == [rec EXCEPT !.trace = @ \o <<"Add.ok">>]
                     IN  IF ReturnsDocument(op)
                         THEN call' = [call EXCEPT ![c] = [rec1 EXCEPT !.pc = "response"]]
                         ELSE call' = [call EXCEPT ![c] = Return(rec1, Nil, Nil, store)]
             ELSE /\ UNCHANGED batch
                  /\ call' = [call EXCEPT ![c] =
                                [rec EXCEPT !.trace = @ \o <<"Add.err">>,
                                            !.err = werr,
                                            !.pc = "delete"]]
    /\ UNCHANGED <<dh, store, overlap, rd, gh>>

\* a compensation that returns the error of Delete when Delete fails
DeleteUnpublished_ReturnsDeleteError(c) ==
    /\ call[c].pc = "delete"
    /\ \E derr \in DeleteOutcomes(dh) :
         LET rec == call[c]
             del == deleteOperationFromUnpublishedOpsStore(dh, store, rec.unpublishedOp, derr)
         IN  /\ store' = del.store
             /\ call' = [call EXCEPT ![c] =
                           Return([rec EXCEPT !.trace = @ \o del.trace], Nil,
                                  IF derr # Nil /\ rec.unpublishedOp # Nil THEN derr ELSE rec.err,
                                  store')]
    /\ UNCHANGED <<dh, batch, overlap, rd, gh>>

\* lines 219-221: deleteOperationFromUnpublishedOpsStore, then return the writer's error
DeleteUnpublished(c) ==
    /\ call[c].pc = "delete"
    /\ \E derr \in DeleteOutcomes(dh) :
         LET rec == call[c]
             del == deleteOperationFromUnpublishedOpsStore(dh, store, rec.unpublishedOp, derr)
         IN  /\ store' = del.store
             /\ call' = [call EXCEPT ![c] =
                           Return([rec EXCEPT !.trace = @ \o del.trace], Nil, rec.err, store')]
    /\ UNCHANGED <<dh, batch, overlap, rd, gh>>

\* lines 229-231 and 282-297: getCreateResponse
CreateResponse(c) ==
    /\ call[c].pc = "response"
    /\ LET rec == call[c]
           op == rec.op[1]
           rec1 == [rec EXCEPT !.trace = @ \o <<"response.GetCreateResult">>]
       IN  \E cerr \in {Nil} \cup CreateResultErrors :
             IF cerr # Nil
             THEN call' = [call EXCEPT ![c] = Return(rec1, Nil, cerr, store)]
             ELSE LET rm == GetCreateResult(op)
                      ti == GetTransformationInfoForUnpublished(
                                dh.namespace, dh.domain, dh.label, op.UniqueSuffix, <<>>)
                      rec2 == [rec1 EXCEPT !.trace = @ \o <<"response.TransformDocument">>,
                                           !.ti = Some(ti)]
                  IN  \E terr \in {Nil} \cup TransformerErrors :
                        IF terr # Nil
                        THEN call' = [call EXCEPT ![c] = Return(rec2, Nil, terr, store)]
                        ELSE call' = [call EXCEPT ![c] =
                                        Return(rec2, Some(TransformDocument(rm, ti)), Nil, store)]
    /\ UNCHANGED <<dh, store, batch, overlap, rd, gh>>

\* the handlers ProcessOperation is checked with
ProcessConfigs ==
    {New(<<"a">>, <<>>, opts) :
       opts \in {<<>>,
                 <<WithUnpublishedOperationStore({TypeCreate, TypeUpdate})>>,
                 <<WithUnpublishedOperationStore(OperationTypes), WithLabel(<<"l">>)>>}}

Init ==
    /\ dh \in ProcessConfigs
    /\ store = [s \in Suffixes |-> Nil]
    /\ batch = {}
    /\ call = [c \in Calls |-> IdleCall]
    /\ overlap = {}
    /\ rd = NoResolve
    /\ gh = NoHint

Next ==
    \E c \in Calls :
       \/ \E operationBuffer \in Requests, protocolVersion \in ProtocolTimes :
             Begin(c, operationBuffer, protocolVersion)
       \/ DecorateStep(c)
       \/ AddUnpublished(c)
       \/ AddToBatch(c)
       \/ DeleteUnpublished(c)
       \/ CreateResponse(c)

Spec == Init /\ [][Next]_vars

(***************************************************************************)
(* ResolveDocument                                                         *)
(***************************************************************************)
\* getNamespace that tries the namespace before the aliases
getNamespace_NamespaceFirst(h, shortOrLongFormDID) ==
    LET matching == {i \in DOMAIN h.aliases :
                       HasPrefix(shortOrLongFormDID, h.aliases[i] \o <<NamespaceDelimiter>>)}
    IN  IF HasPrefix(shortOrLongFormDID, h.namespace \o <<NamespaceDelimiter>>)
        THEN [ns |-> h.namespace, err |-> Nil]
        ELSE IF matching # {}
        THEN [ns |-> h.aliases[Min(matching)], err |-> Nil]
        ELSE [ns |-> <<>>,
              err |-> <<"did must start with configured namespace[">> \o h.namespace
                        \o <<"] or aliases[">> \o Join(h.aliases) \o <<"]">>]

\* DocumentHandler.getNamespace: the aliases first, in their order, then the namespace
getNamespace(h, shortOrLongFormDID) ==
    LET matching == {i \in DOMAIN h.aliases :
                       HasPrefix(shortOrLongFormDID, h.aliases[i] \o <<NamespaceDelimiter>>)}
    IN  IF matching # {}
        THEN [ns |-> h.aliases[Min(matching)], err |-> Nil]
        ELSE IF HasPrefix(shortOrLongFormDID, h.namespace \o <<NamespaceDelimiter>>)
        THEN [ns |-> h.namespace, err |-> Nil]
        ELSE [ns |-> <<>>,
              err |-> <<"did must start with configured namespace[">> \o h.namespace
                        \o <<"] or aliases[">> \o Join(h.aliases) \o <<"]">>]

\* getSuffix without the test for an empty suffix
getSuffix_AllowsEmpty(namespace, idOrDocument) ==
    LET ns == namespace \o <<NamespaceDelimiter>>
        pos == Index(idOrDocument, ns)
        lastDelimiter == LastIndex(idOrDocument, <<NamespaceDelimiter>>)
        adjustedPos == lastDelimiter + 1
    IN  IF pos = -1
        THEN [suffix |-> <<>>, err |-> <<"did must start with configured namespace">>]
        ELSE [suffix |-> SliceFrom(idOrDocument, adjustedPos), err |-> Nil]

\* getSuffix(namespace, idOrDocument)
getSuffix(namespace, idOrDocument) ==
    LET ns == namespace \o <<NamespaceDelimiter>>
        pos == Index(idOrDocument, ns)
        lastDelimiter == LastIndex(idOrDocument, <<NamespaceDelimiter>>)
        adjustedPos == lastDelimiter + 1
    IN  IF pos = -1
        THEN [suffix |-> <<>>, err |-> <<"did must start with configured namespace">>]
        ELSE IF adjustedPos >= Len(idOrDocument)
        THEN [suffix |-> <<>>, err |-> <<"did suffix is empty">>]
        ELSE [suffix |-> SliceFrom(idOrDocument, adjustedPos), err |-> Nil]

\* GetHint looking for the first occurrence of the suffix
GetHint_FirstOccurrence(id, namespace, suffix) ==
    LET posSuffix == Index(id, suffix)
    IN  IF posSuffix = -1
        THEN [hint |-> <<>>, err |-> <<"invalid ID [">> \o id \o <<"]">>]
        ELSE IF Len(namespace) + 1 > posSuffix - 1
        THEN [hint |-> <<>>, err |-> Nil]
        ELSE [hint |-> Slice(id, Len(namespace) + 1, posSuffix - 1), err |-> Nil]

\* GetHint refusing an identifier that has no room for a hint
GetHint_RequiresHint(id, namespace, suffix) ==
    LET posSuffix == LastIndex(id, suffix)
    IN  IF posSuffix = -1 \/ Len(namespace) + 1 > posSuffix - 1
        THEN [hint |-> <<>>, err |-> <<"invalid ID [">> \o id \o <<"]">>]
        ELSE [hint |-> Slice(id, Len(namespace) + 1, posSuffix - 1), err |-> Nil]

\* GetHint(id, namespace, suffix)
GetHint(id, namespace, suffix) ==
    LET posSuffix == LastIndex(id, suffix)
    IN  IF posSuffix = -1
        THEN [hint |-> <<>>, err |-> <<"invalid ID [">> \o id \o <<"]">>]
        ELSE IF Len(namespace) + 1 > posSuffix - 1
        THEN [hint |-> <<>>, err |-> Nil]
        ELSE [hint |-> Slice(id, Len(namespace) + 1, posSuffix - 1), err |-> Nil]

\* the initial states a long-form identifier may carry, as the bytes ParseDID returns
InitialStates ==
    [type : {TypeCreate}, ref : {<<d>> : d \in SuffixData}, valid : BOOLEAN]
      \cup {[type |-> "garbage", ref |-> <<"x">>, valid |-> FALSE]}

ParseDIDErrors == {<<"invalid initial state">>}

\* OperationParser.ParseDID(namespace, shortOrLongFormDID): the identifier as it
\* is (short form), or the identifier cut at its last delimiter and the
\* initial state the rest encodes (long form), or an error
ParseDIDOutcomes(namespace, shortOrLongFormDID) ==
    LET last == LastIndex(shortOrLongFormDID, <<NamespaceDelimiter>>)
        did == Slice(shortOrLongFormDID, 0, last)
    IN  {[did |-> shortOrLongFormDID, createReq |-> Nil, err |-> Nil]}
          \cup (IF last # -1 /\ HasPrefix(did, namespace \o <<NamespaceDelimiter>>)
                THEN [did : {<<>>}, createReq : {Nil}, err : ParseDIDErrors]
                       \cup [did : {did}, createReq : {Some(b) : b \in InitialStates}, err : {Nil}]
                ELSE {})

\* resolveRequestWithID labelling the unpublished document with the configured
\* label instead of the identifier's hint
resolveRequestWithID_ConfiguredLabel(h, shortFormDid, uniquePortion, resolved, terr) ==
    LET out == [doc |-> Nil, err |-> Nil, resolved |-> resolved.rm, hint |-> Nil, ti |-> Nil,
                trace |-> <<"processor.Resolve">>]
    IN  IF resolved.err # Nil
        THEN [out EXCEPT !.err = resolved.err]
        ELSE LET internalResult == resolved.rm[1]
                 hint == GetHint(shortFormDid, h.namespace, uniquePortion)
                 ti == IF internalResult.PublishedOperations = 0
                       THEN GetTransformationInfoForUnpublished(
                                h.namespace, h.domain, h.label, uniquePortion, <<>>)
                       ELSE GetTransformationInfoForPublished(
                                h.namespace, shortFormDid, uniquePortion, internalResult)
                 out1 == IF internalResult.PublishedOperations = 0
                         THEN [out EXCEPT !.trace = @ \o <<"GetHint">>, !.hint = Some(hint.hint)]
                         ELSE out
             IN  IF internalResult.PublishedOperations = 0 /\ hint.err # Nil
                 THEN [out1 EXCEPT !.err = hint.err, !.hint = Nil]
                 ELSE IF terr # Nil
                 THEN [out1 EXCEPT !.err = terr, !.ti = Some(ti),
                                   !.trace = @ \o <<"TransformDocument">>]
                 ELSE [out1 EXCEPT !.doc = Some(TransformDocument(internalResult, ti)),
                                   !.ti = Some(ti),
                                   !.trace = @ \o <<"TransformDocument">>]

\* DocumentHandler.resolveRequestWithID, given the processor's answer and the
\* transformer's error, if any
resolveRequestWithID(h, shortFormDid, uniquePortion, resolved, terr) ==
    LET out == [doc |-> Nil, err |-> Nil, resolved |-> resolved.rm, hint |-> Nil, ti |-> Nil,
                trace |-> <<"processor.Resolve">>]
    IN  IF resolved.err # Nil
        THEN [out EXCEPT !.err = resolved.err]
        ELSE LET internalResult == resolved.rm[1]
                 hint == GetHint(shortFormDid, h.namespace, uniquePortion)
                 ti == IF internalResult.PublishedOperations = 0
                       THEN GetTransformationInfoForUnpublished(
                                h.namespace, h.domain, hint.hint, uniquePortion, <<>>)
                       ELSE GetTransformationInfoForPublished(
                                h.namespace, shortFormDid, uniquePortion, internalResult)
                 out1 == IF internalResult.PublishedOperations = 0
                         THEN [out EXCEPT !.trace = @ \o <<"GetHint">>, !.hint = Some(hint.hint)]
                         ELSE out
             IN  IF internalResult.PublishedOperations = 0 /\ hint.err # Nil
                 THEN [out1 EXCEPT !.err = hint.err, !.hint = Nil]
                 ELSE IF terr # Nil
                 THEN [out1 EXCEPT !.err = terr, !.ti = Some(ti),
                                   !.trace = @ \o <<"TransformDocument">>]
                 ELSE [out1 EXCEPT !.doc = Some(TransformDocument(internalResult, ti)),
                                   !.ti = Some(ti),
                                   !.trace = @ \o <<"TransformDocument">>]

\* the create request cut at the first delimiter instead of the last
createRequestJCSOf_FirstDelimiter(longFormDID) ==
    SliceFrom(longFormDID, Index(longFormDID, <<NamespaceDelimiter>>) + 1)

\* line 430: the text after the last delimiter of the long-form identifier
createRequestJCSOf(longFormDID) ==
    SliceFrom(longFormDID, LastIndex(longFormDID, <<NamespaceDelimiter>>) + 1)

\* the test of line 411 never finding a difference
SuffixDiffers_Never(uniqueSuffix, op) == FALSE

\* line 411: the suffix of the identifier is not the one of the initial state
SuffixDiffers(uniqueSuffix, op) == uniqueSuffix # op.UniqueSuffix

\* the transformer's error handed on as it is
TransformInitialStateError_Unwrapped(err) == err

\* fmt.Errorf("failed to transform create with initial state to external document: %s", ...)
TransformInitialStateError(err) ==
    <<"failed to transform create with initial state to external document: ">> \o err

\* DocumentHandler.resolveRequestWithInitialState, given the errors, if any, of
\* GetCreateResult, MarshalCanonical and the transformer
resolveRequestWithInitialState(h, uniqueSuffix, longFormDID, initialBytes, pv, cerr, merr, terr) ==
    LET out == [doc |-> Nil, err |-> Nil, ti |-> Nil, trace |-> <<"Parse">>]
        parsed == Parse(h.namespace, initialBytes, pv)
    IN  IF parsed.err # Nil
        THEN [out EXCEPT !.err = BadRequestError(parsed.err)]
        ELSE LET op == parsed.op[1]
             IN  IF SuffixDiffers(uniqueSuffix, op)
                 THEN [out EXCEPT !.err = BadRequestError(
                           <<"provided did doesn't match did created from initial state">>)]
                 ELSE IF cerr # Nil
                 THEN [out EXCEPT !.err = cerr, !.trace = @ \o <<"GetCreateResult">>]
                 ELSE IF merr # Nil
                 THEN [out EXCEPT !.err = merr,
                                  !.trace = @ \o <<"GetCreateResult", "MarshalCanonical">>]
                 ELSE IF validateOperation(op) # Nil
                 THEN [out EXCEPT !.err = BadRequestError(
                                      <<"validate initial document: ">> \o validateOperation(op)),
                                  !.trace = @ \o <<"GetCreateResult", "MarshalCanonical",
                                                   "IsValidOriginalDocument">>]
                 ELSE LET rm == GetCreateResult(op)
                          createRequestJCS == createRequestJCSOf(longFormDID)
                          ti == GetTransformationInfoForUnpublished(
                                    h.namespace, h.domain, h.label, uniqueSuffix, createRequestJCS)
                          out1 == [out EXCEPT !.ti = Some(ti),
                                              !.trace = @ \o <<"GetCreateResult", "MarshalCanonical",
                                                               "IsValidOriginalDocument",
                                                               "TransformDocument">>]
                      IN  IF terr # Nil
                          THEN [out1 EXCEPT !.err = TransformInitialStateError(terr)]
                          ELSE [out1 EXCEPT !.doc = Some(TransformDocument(rm, ti))]

MarshalErrors == {<<"marshal failed">>}

\* the test of line 340 without the look for "not found"
FallsBack_OnAnyError(createReq, err) == createReq # Nil

\* line 340: initial state was provided and the error says "not found"
FallsBack(createReq, err) == createReq # Nil /\ Contains(err, "not found")

\* DocumentHandler.ResolveDocument(shortOrLongFormDID, opts...)
ResolveDocument(shortOrLongFormDID) ==
    /\ rd.pc = "none"
    /\ LET r0 == [NoResolve EXCEPT !.pc = "done", !.id = shortOrLongFormDID]
           n == getNamespace(dh, shortOrLongFormDID)
       IN  IF n.err # Nil
           THEN rd' = [r0 EXCEPT !.err = BadRequestError(n.err)]
           ELSE \E cur \in CurrentOutcomes :
             LET r1 == [r0 EXCEPT !.ns = n.ns, !.trace = <<"protocol.Current">>]
             IN  IF cur.err # Nil
                 THEN rd' = [r1 EXCEPT !.err = cur.err]
                 ELSE \E pd \in ParseDIDOutcomes(n.ns, shortOrLongFormDID) :
                   LET r2 == [r1 EXCEPT !.trace = @ \o <<"ParseDID">>]
                       sfx == getSuffix(n.ns, pd.did)
                       r3 == [r2 EXCEPT !.shortFormDID = pd.did, !.createReq = pd.createReq]
                   IN  IF pd.err # Nil
                       THEN rd' = [r2 EXCEPT !.err = BadRequestError(pd.err)]
                       ELSE IF sfx.err # Nil
                       THEN rd' = [r3 EXCEPT !.err = BadRequestError(sfx.err)]
                       ELSE \E resolved \in ResolveOutcomes, terr \in {Nil} \cup TransformerErrors :
                         LET byID == resolveRequestWithID(dh, pd.did, sfx.suffix, resolved, terr)
                             r4 == [r3 EXCEPT !.suffix = sfx.suffix,
                                              !.resolved = byID.resolved,
                                              !.resolveErr = resolved.err,
                                              !.hint = byID.hint,
                                              !.ti = byID.ti,
                                              !.idTi = byID.ti,
                                              !.trace = @ \o byID.trace]
                         IN  IF byID.err = Nil
                             THEN rd' = [r4 EXCEPT !.doc = byID.doc]
                             ELSE IF FallsBack(pd.createReq, byID.err)
                             THEN \E cerr \in {Nil} \cup CreateResultErrors,
                                     merr \in {Nil} \cup MarshalErrors,
                                     ferr \in {Nil} \cup TransformerErrors :
                                    LET byState == resolveRequestWithInitialState(
                                                       dh, sfx.suffix, shortOrLongFormDID,
                                                       pd.createReq[1], cur.pv[1], cerr, merr, ferr)
                                    IN  rd' = [r4 EXCEPT !.fallback = TRUE,
                                                         !.ti = byState.ti,
                                                         !.doc = byState.doc,
                                                         !.err = byState.err,
                                                         !.trace = @ \o byState.trace]
                             ELSE rd' = [r4 EXCEPT !.err = byID.err]
    /\ UNCHANGED <<dh, store, batch, call, overlap, gh>>

\* the identifiers ResolveDocument is called with
Ids == StringsUpTo(MaxIdLen)

\* the handlers ResolveDocument is checked with
ResolveConfigs ==
    {New(c[1], c[2], opts) :
       c \in {<< <<"a">>, <<>> >>,
              << <<"a", ":", "b">>, << <<"a">> >> >>,
              << <<"a">>, << <<"b">>, <<"b", ":", "a">> >> >>,
              << <<"b">>, << <<"a", ":", "b">>, <<"a">> >> >>},
       opts \in {<<>>, <<WithDomain(<<"d">>), WithLabel(<<"l">>)>>}}

InitResolve ==
    /\ dh \in ResolveConfigs
    /\ store = [s \in Suffixes |-> Nil]
    /\ batch = {}
    /\ call = [c \in Calls |-> IdleCall]
    /\ overlap = {}
    /\ rd = NoResolve
    /\ gh = NoHint

\* a return that keeps the matched namespace as the handler's own
ResolveReturned_KeepsMatchedNamespace ==
    /\ rd.pc = "done"
    /\ rd' = NoResolve
    /\ dh' = IF rd.ns # <<>> THEN [dh EXCEPT !.namespace = rd.ns] ELSE dh
    /\ UNCHANGED <<store, batch, call, overlap, gh>>

\* a ResolveDocument that, before it returns the document of an initial
\* state, hands the create operation to the batch writer
ResolveReturned_EnqueuesInitialState ==
    /\ rd.pc = "done"
    /\ rd' = NoResolve
    /\ batch' = IF rd.fallback /\ rd.doc # Nil
                THEN batch \cup {[call |-> 0,
                                  op |-> QueuedOperation(
                                            dh, Parse(dh.namespace, rd.createReq[1],
                                                      CHOOSE w \in Versions : TRUE).op[1]),
                                  protocolVersion |-> 0]}
                ELSE batch
    /\ UNCHANGED <<dh, store, call, overlap, gh>>

\* the caller of ResolveDocument takes the result
ResolveReturned ==
    /\ rd.pc = "done"
    /\ rd' = NoResolve
    /\ UNCHANGED <<dh, store, batch, call, overlap, gh>>

NextResolve ==
    \/ \E shortOrLongFormDID \in Ids : ResolveDocument(shortOrLongFormDID)
    \/ ResolveReturned

SpecResolve == InitResolve /\ [][NextResolve]_vars

(***************************************************************************)
(* ProcessOperation and ResolveDocument called concurrently on one handler *)
(***************************************************************************)
\* the ProcessOperation calls that run beside ResolveDocument
MixedCalls == 1 .. NumMixedCalls

\* the identifiers ResolveDocument is called with beside ProcessOperation:
\* short and long forms under the namespace "a", one without a suffix, one
\* under "b"
MixedIds ==
    {<<"a", ":", "a">>, <<"a", ":", "b">>, <<"a", ":", "a", ":", "b">>,
     <<"a", ":">>, <<"b", ":", "a">>}

\* the requests ProcessOperation is called with beside ResolveDocument
MixedRequests ==
    {r \in Requests : r.ref \in {<<"x">>, <<"a">>} /\ (r.valid \/ r.type \in {"garbage", TypeCreate})}

\* the handlers both operations are called on
MixedConfigs ==
    {New(<<"a">>, <<>>,
         <<WithUnpublishedOperationStore({TypeCreate, TypeUpdate}),
           WithDomain(<<"d">>), WithLabel(<<"l">>)>>),
     New(<<"a">>, << <<"b">> >>, <<>>)}

InitMixed ==
    /\ dh \in MixedConfigs
    /\ store = [s \in Suffixes |-> Nil]
    /\ batch = {}
    /\ call = [c \in Calls |-> IdleCall]
    /\ overlap = {}
    /\ rd = NoResolve
    /\ gh = NoHint

NextMixed ==
    \/ \E c \in MixedCalls :
          \/ \E operationBuffer \in MixedRequests, protocolVersion \in ProtocolTimes :
                Begin(c, operationBuffer, protocolVersion)
          \/ DecorateStep(c)
          \/ AddUnpublished(c)
          \/ AddToBatch(c)
          \/ DeleteUnpublished(c)
          \/ CreateResponse(c)
    \/ \E shortOrLongFormDID \in MixedIds : ResolveDocument(shortOrLongFormDID)
    \/ ResolveReturned

SpecMixed == InitMixed /\ [][NextMixed]_vars

(***************************************************************************)
(* GetHint, called on its own                                              *)
(***************************************************************************)
\* the identifiers, namespaces and suffixes GetHint is called with
HintIds == StringsUpTo(MaxHintIdLen)
HintParts == StringsUpTo(MaxPartLen)

\* a caller applies GetHint to three arguments
CallGetHint ==
    /\ gh.pc = "none"
    /\ \E id \in HintIds, namespace \in HintParts, suffix \in HintParts :
         LET h == GetHint(id, namespace, suffix)
         IN  gh' = [pc |-> "done", id |-> id, namespace |-> namespace, suffix |-> suffix,
                    hint |-> h.hint, err |-> h.err]
    /\ UNCHANGED <<dh, store, batch, call, overlap, rd>>

\* the caller takes the result
HintReturned ==
    /\ gh.pc = "done"
    /\ gh' = NoHint
    /\ UNCHANGED <<dh, store, batch, call, overlap, rd>>

InitHint ==
    /\ dh = New(<<"a">>, <<>>, <<>>)
    /\ store = [s \in Suffixes |-> Nil]
    /\ batch = {}
    /\ call = [c \in Calls |-> IdleCall]
    /\ overlap = {}
    /\ rd = NoResolve
    /\ gh = NoHint

NextHint ==
    \/ CallGetHint
    \/ HintReturned

SpecHint == InitHint /\ [][NextHint]_vars

(***************************************************************************)
(* Properties of ProcessOperation                                          *)
(***************************************************************************)
Has(tr, e) == \E i \in DOMAIN tr : tr[i] = e
\* the last call a trace records
Last(tr) == IF tr = <<>> THEN "" ELSE tr[Len(tr)]
\* an a occurs in tr before every b
AllAfter(tr, a, b) ==
    \A j \in DOMAIN tr : tr[j] = b => \E i \in 1 .. (j - 1) : tr[i] = a
InvokedPut(tr) == Has(tr, "Put.ok") \/ Has(tr, "Put.err")
InvokedAdd(tr) == Has(tr, "Add.ok") \/ Has(tr, "Add.err")
InvokedDelete(tr) == Has(tr, "Delete.ok") \/ Has(tr, "Delete.err")
Returned(c) == call[c].pc = "done"
Succeeded(c) == call[c].pc = "done" /\ call[c].err = Nil
\* the operation of the call is of a type the handler stages
StagedType(c) ==
    call[c].op # Nil /\ call[c].op[1].Type \in dh.unpublishedOperationTypes

\* C1: in a call whose operation type is staged, Put comes before Add, Add is
\* invoked only after Put succeeded, a failed Put ends the call with an error
\* naming the suffix and with neither Add nor Delete, and the call succeeds
\* only after Add succeeded.
C1_PutThenAdd ==
    \A c \in Calls :
       StagedType(c) =>
         LET rec == call[c]
         IN  /\ AllAfter(rec.trace, "Put.ok", "Add.ok")
             /\ AllAfter(rec.trace, "Put.ok", "Add.err")
             /\ Has(rec.trace, "Put.err") =>
                  /\ Returned(c)
                  /\ rec.err # Nil
                  /\ rec.doc = Nil
                  /\ Mentions(rec.err, rec.op[1].UniqueSuffix)
                  /\ ~InvokedAdd(rec.trace)
                  /\ ~InvokedDelete(rec.trace)
             /\ Succeeded(c) => Has(rec.trace, "Add.ok")

C1_Witness ==
    \E c, d \in Calls :
       /\ StagedType(c) /\ Succeeded(c)
       /\ Has(call[c].trace, "Put.ok") /\ Has(call[c].trace, "Add.ok")
       /\ StagedType(d) /\ Returned(d) /\ Has(call[d].trace, "Put.err")

\* C2: a call that no call for the same suffix overlapped, whose Put
\* succeeded, whose Add failed and whose Delete succeeded, returns an error
\* and leaves no entry for its suffix in the unpublished store.
C2_CompensatedOnAddFailure ==
    \A c \in Calls :
       ( /\ c \notin overlap
         /\ Returned(c)
         /\ Has(call[c].trace, "Put.ok")
         /\ Has(call[c].trace, "Add.err")
         /\ Has(call[c].trace, "Delete.ok") )
       => /\ call[c].err # Nil
          /\ call[c].doc = Nil
          /\ call[c].held = "no"

C2_Witness ==
    \E c \in Calls :
       /\ c \notin overlap
       /\ Returned(c)
       /\ Has(call[c].trace, "Put.ok")
       /\ Has(call[c].trace, "Add.err")
       /\ Has(call[c].trace, "Delete.ok")
       /\ call[c].held = "no"
       /\ \E d \in Calls \ {c} : Has(call[d].trace, "Put.ok")

\* C3 as claimed: in every interleaving, a call whose Add succeeded for an
\* operation of a staged type returns with an entry for its suffix in the
\* store, and a call deletes only after its own Add failed.
C3_AsClaimed ==
    \A c \in Calls :
       /\ (Returned(c) /\ Has(call[c].trace, "Put.ok") /\ Has(call[c].trace, "Add.ok"))
            => call[c].held = "yes"
       /\ InvokedDelete(call[c].trace) => Has(call[c].trace, "Add.err")

\* C3, amended: the entry is still held at the return of a call that no call
\* for the same suffix overlapped; in every interleaving a call deletes only
\* after its own Add failed.
C3_HeldUnlessOverlapped ==
    \A c \in Calls :
       /\ (c \notin overlap /\ Returned(c)
             /\ Has(call[c].trace, "Put.ok") /\ Has(call[c].trace, "Add.ok"))
            => call[c].held = "yes"
       /\ InvokedDelete(call[c].trace) =>
            /\ AllAfter(call[c].trace, "Add.err", "Delete.ok")
            /\ AllAfter(call[c].trace, "Add.err", "Delete.err")
            /\ ~Has(call[c].trace, "Add.ok")

C3_Witness ==
    \E c, d \in Calls :
       /\ c # d
       /\ c \notin overlap
       /\ Returned(c) /\ Has(call[c].trace, "Put.ok") /\ Has(call[c].trace, "Add.ok")
       /\ call[c].held = "yes"
       /\ Returned(d) /\ Has(call[d].trace, "Delete.ok")
       /\ call[d].op[1].UniqueSuffix = call[c].op[1].UniqueSuffix

\* the request passed version selection, parse and validation, and the
\* decorator did not refuse it
Admissible(c) ==
    LET rec == call[c]
    IN  /\ rec.pv # Nil
        /\ rec.req.type \in OperationTypes
        /\ rec.req.valid
        /\ rec.req.type # TypeCreate =>
             rec.resolved # Nil /\ ~rec.resolved[1].Deactivated

\* C4: whatever is in the unpublished store or was handed to the batch writer
\* comes from a call whose version selection, parse, validation and
\* decoration succeeded; a call in which one of them failed invokes none of
\* Put, Add and Delete.
C4_OnlyAdmittedOperations ==
    /\ \A b \in batch : Admissible(b.call) /\ b.op.OperationRequest = call[b.call].req
    /\ \A s \in Suffixes :
         store[s] # Nil =>
           \E c \in Calls :
              /\ Admissible(c)
              /\ call[c].unpublishedOp = store[s]
              /\ Has(call[c].trace, "Put.ok")
    /\ \A c \in Calls :
         (call[c].pc # "idle" /\ ~Admissible(c) /\ call[c].pc # "decorate") =>
           /\ ~InvokedPut(call[c].trace)
           /\ ~InvokedAdd(call[c].trace)
           /\ ~InvokedDelete(call[c].trace)
           /\ Returned(c) /\ call[c].err # Nil

C4_Witness ==
    \E c, d \in Calls :
       /\ \E b \in batch : b.call = c
       /\ \E s \in Suffixes : store[s] = call[c].unpublishedOp /\ store[s] # Nil
       /\ Returned(d) /\ Has(call[d].trace, "validate.err")

\* C5: with the default decorator, an update, recover or deactivate whose
\* resolution during Decorate is deactivated fails with a "bad request" error
\* that contains "has been deactivated", with neither Put nor Add; hence a
\* call that accepted such an operation saw a state that was not deactivated.
C5_DeactivatedIsRefused ==
    \A c \in Calls :
       LET rec == call[c]
       IN  /\ ( /\ rec.op # Nil
                /\ rec.op[1].Type # TypeCreate
                /\ rec.resolved # Nil
                /\ rec.resolved[1].Deactivated )
              => /\ Returned(c)
                 /\ rec.doc = Nil
                 /\ rec.err # Nil
                 /\ rec.err[1] = badRequest
                 /\ Contains(rec.err, "has been deactivated")
                 /\ ~InvokedPut(rec.trace)
                 /\ ~InvokedAdd(rec.trace)
           /\ (rec.op # Nil /\ rec.op[1].Type # TypeCreate /\ Has(rec.trace, "Add.ok"))
              => /\ Has(rec.trace, "decorate.Resolve")
                 /\ rec.resolved # Nil
                 /\ ~rec.resolved[1].Deactivated

C5_Witness ==
    \E c, d \in Calls :
       /\ call[c].op # Nil /\ call[c].op[1].Type = TypeUpdate
       /\ call[c].resolved # Nil /\ call[c].resolved[1].Deactivated
       /\ Returned(c) /\ Contains(call[c].err, "has been deactivated")
       /\ Succeeded(d) /\ call[d].op[1].Type = TypeDeactivate

C8_UnstagedTypes ==
    /\ dh.unpublishedOperationStore = "noop" =>
         /\ dh.unpublishedOperationTypes = {}
         /\ \A s \in Suffixes : store[s] = Nil
    /\ \A c \in Calls :
         LET rec == call[c]
         IN  (rec.op # Nil /\ rec.op[1].Type \notin dh.unpublishedOperationTypes) =>
               /\ ~InvokedPut(rec.trace)
               /\ ~InvokedDelete(rec.trace)
               /\ rec.unpublishedOp = Nil
               /\ (Has(rec.trace, "decorate.ok") /\ rec.pc \in {"delete", "response", "done"})
                    => InvokedAdd(rec.trace)
               /\ Has(rec.trace, "Add.ok") =>
                    \E b \in batch : b.call = c /\ b.op = QueuedOperation(dh, rec.op[1])

C8_Witness ==
    \E c, d \in Calls :
       /\ dh.unpublishedOperationTypes # {}
       /\ call[c].op # Nil /\ call[c].op[1].Type \notin dh.unpublishedOperationTypes
       /\ Returned(c) /\ Has(call[c].trace, "Add.err")
       /\ call[d].op # Nil /\ call[d].op[1].Type \notin dh.unpublishedOperationTypes
       /\ Succeeded(d)

(***************************************************************************)
(* Properties of ResolveDocument                                           *)
(***************************************************************************)
\* the aliases in their order, then the namespace
ConfiguredNames == dh.aliases \o <<dh.namespace>>
MatchingNames(id) ==
    {i \in DOMAIN ConfiguredNames : HasPrefix(id, ConfiguredNames[i] \o <<":">>)}

\* C9: the namespace resolver answers with the first of the aliases, in
\* their order, then the namespace, that followed by ':' begins the
\* identifier; if none does, ResolveDocument fails with a bad request that
\* lists the namespace and the aliases, before any protocol or processor call.
C9_FirstMatchingNamespace ==
    rd.pc = "done" =>
      IF MatchingNames(rd.id) = {}
      THEN /\ IsBadRequest(rd.err)
           /\ Mentions(rd.err, dh.namespace)
           /\ \A i \in DOMAIN dh.aliases : Mentions(rd.err, dh.aliases[i])
           /\ rd.trace = <<>>
           /\ rd.doc = Nil
      ELSE /\ rd.ns = ConfiguredNames[Min(MatchingNames(rd.id))]
           /\ rd.trace # <<>>
           /\ rd.trace[1] = "protocol.Current"

C9_Witness ==
    /\ rd.pc = "done"
    /\ \E i, j \in MatchingNames(rd.id) :
          /\ i < j
          /\ ConfiguredNames[i] # ConfiguredNames[j]
          /\ Len(ConfiguredNames[i]) < Len(ConfiguredNames[j])
          /\ rd.ns = ConfiguredNames[i]
    /\ rd.doc # Nil

\* the version Client.Current answers with
CurrentVersion == CHOOSE w \in Versions : \A x \in Versions : x.GenesisTime <= w.GenesisTime

\* the text after the last ':' of s
AfterLastColon(s) ==
    LET colons == {i \in DOMAIN s : s[i] = ":"}
    IN  IF colons = {} THEN s ELSE SubSeq(s, Max(colons) + 1, Len(s))

\* the processor answered "not found", the identifier carries an initial
\* state that parses to an operation of the identifier's suffix, and its
\* document was composed, canonicalized and found valid
LongFormResolvable ==
    /\ rd.pc = "done"
    /\ rd.resolveErr # Nil
    /\ Contains(rd.resolveErr, "not found")
    /\ rd.createReq # Nil
    /\ Parse(dh.namespace, rd.createReq[1], CurrentVersion).err = Nil
    /\ Parse(dh.namespace, rd.createReq[1], CurrentVersion).op[1].UniqueSuffix = rd.suffix
    /\ rd.createReq[1].valid
    /\ rd.err \notin CreateResultErrors \cup MarshalErrors

\* the unpublished transformation info of the long-form fallback
LongFormInfo ==
    [published |-> FALSE, namespace |-> dh.namespace, domain |-> dh.domain,
     label |-> dh.label, id |-> <<>>, suffix |-> rd.suffix,
     createRequestJCS |-> AfterLastColon(rd.id), internalResult |-> Nil]

\* C10 as claimed: in that case ResolveDocument returns a document and no
\* error, built from unpublished transformation info with the handler's
\* domain and label, the suffix and the text after the last ':' of the input.
C10_AsClaimed ==
    LongFormResolvable =>
      /\ rd.err = Nil
      /\ rd.doc # Nil
      /\ rd.ti = Some(LongFormInfo)

\* C10, amended: in that case ResolveDocument hands the transformer that
\* unpublished transformation info and returns its document without error, or,
\* when the transformer fails, no document and the error "failed to transform
\* create with initial state to external document: ..." around its error.
C10_LongFormFallback ==
    LongFormResolvable =>
      /\ rd.fallback
      /\ rd.ti = Some(LongFormInfo)
      /\ \/ /\ rd.err = Nil
            /\ rd.doc = Some(TransformDocument(
                                GetCreateResult(
                                    Parse(dh.namespace, rd.createReq[1], CurrentVersion).op[1]),
                                LongFormInfo))
         \/ /\ rd.doc = Nil
            /\ \E e \in TransformerErrors : rd.err = TransformInitialStateError(e)

C10_Witness ==
    /\ LongFormResolvable
    /\ rd.doc # Nil
    /\ rd.err = Nil
    /\ dh.label # <<>>
    /\ dh.domain # <<>>
    /\ Len(AfterLastColon(rd.id)) > 0
    /\ Len(rd.id) > Len(rd.shortFormDID)

\* C11: when processor.Resolve fails and the identifier carried no initial
\* state, or the processor's error does not contain "not found",
\* ResolveDocument returns exactly the processor's error and no document, and
\* does not attempt the long-form fallback.
C11_ProcessorErrorUnchanged ==
    (/\ rd.pc = "done"
     /\ rd.resolveErr # Nil
     /\ rd.createReq = Nil \/ ~Contains(rd.resolveErr, "not found")) =>
        /\ rd.err = rd.resolveErr
        /\ rd.err \in ProcessorErrors
        /\ ~IsBadRequest(rd.err)
        /\ rd.doc = Nil
        /\ ~rd.fallback
        /\ ~Has(rd.trace, "Parse")
        /\ rd.trace = <<"protocol.Current", "ParseDID", "processor.Resolve">>

C11_Witness ==
    /\ rd.pc = "done"
    /\ rd.createReq # Nil
    /\ rd.resolveErr = <<"processor unavailable">>
    /\ rd.err = rd.resolveErr

\* the calls the long-form fallback made: the trace from its Parse on
FallbackTrace ==
    LET at == {i \in DOMAIN rd.trace : rd.trace[i] = "Parse"}
    IN  IF at = {} THEN <<>> ELSE SubSeq(rd.trace, Min(at), Len(rd.trace))

\* the initial state of the identifier parses to an operation whose unique
\* suffix is not the suffix of the identifier
InitialStateOfAnotherSuffix ==
    /\ rd.createReq # Nil
    /\ Parse(dh.namespace, rd.createReq[1], CurrentVersion).err = Nil
    /\ Parse(dh.namespace, rd.createReq[1], CurrentVersion).op[1].UniqueSuffix # rd.suffix

\* C12: in the long-form fallback, an initial state whose computed suffix
\* differs from the identifier's suffix gives a bad-request error and no
\* document, with neither GetCreateResult, validation nor transformation of it.
C12_SuffixMismatch ==
    (rd.pc = "done" /\ rd.fallback /\ InitialStateOfAnotherSuffix) =>
        /\ rd.err = BadRequestError(
                       <<"provided did doesn't match did created from initial state">>)
        /\ rd.doc = Nil
        /\ FallbackTrace = <<"Parse">>

C12_Witness ==
    /\ rd.pc = "done"
    /\ rd.fallback
    /\ InitialStateOfAnotherSuffix
    /\ rd.createReq[1].valid
    /\ IsBadRequest(rd.err)

\* the operation the parser made of the request of call c
ParsedOperation(c) == Parse(dh.namespace, call[c].req, call[c].pv[1]).op[1]

\* the operations the batch writer accepted from call c
Enqueued(c) == {b.op : b \in {x \in batch : x.call = c}}

\* C18: for an accepted update or deactivate the anchor origin of the
\* QueuedOperation passed to Add and of the AnchoredOperation passed to Put is
\* the one of the resolution model the decorator got from the processor; for
\* an accepted recover it is the one the parser produced; the decorator
\* changes no other field of the operation.
C18_AnchorOrigin ==
    \A c \in Calls :
       LET rec == call[c]
       IN  Has(rec.trace, "decorate.ok") =>
             LET parsed == ParsedOperation(c)
                 origin == IF rec.op[1].Type \in {TypeUpdate, TypeDeactivate}
                           THEN rec.resolved[1].AnchorOrigin
                           ELSE parsed.AnchorOrigin
             IN  /\ rec.op[1] = [parsed EXCEPT !.AnchorOrigin = origin]
                 /\ \A q \in Enqueued(c) :
                       /\ q.AnchorOrigin = origin
                       /\ q.Type = parsed.Type
                       /\ q.UniqueSuffix = parsed.UniqueSuffix
                       /\ q.OperationRequest = parsed.OperationRequest
                 /\ rec.unpublishedOp # Nil =>
                       /\ rec.unpublishedOp[1].AnchorOrigin = origin
                       /\ rec.unpublishedOp[1].Type = parsed.Type
                       /\ rec.unpublishedOp[1].UniqueSuffix = parsed.UniqueSuffix
                       /\ rec.unpublishedOp[1].OperationRequest = parsed.OperationRequest
                 /\ Has(rec.trace, "Add.ok") => Enqueued(c) # {}

C18_Witness ==
    \E c, d \in Calls :
       /\ Succeeded(c) /\ call[c].op[1].Type = TypeRecover
       /\ call[c].unpublishedOp # Nil
       /\ call[c].resolved # Nil
       /\ call[c].resolved[1].AnchorOrigin # call[c].op[1].AnchorOrigin
       /\ Succeeded(d) /\ call[d].op[1].Type = TypeDeactivate
       /\ call[d].unpublishedOp # Nil
       /\ call[d].op[1].AnchorOrigin # ParsedOperation(d).AnchorOrigin

\* C19: for a create the decorator returns the operation unchanged and never
\* calls processor.Resolve, so a create that parses and validates goes on to
\* be staged and enqueued whatever the processor holds for its suffix.
C19_CreateIsNotResolved ==
    \A c \in Calls :
       LET rec == call[c]
       IN  (rec.op # Nil /\ rec.op[1].Type = TypeCreate) =>
             /\ ~Has(rec.trace, "decorate.Resolve")
             /\ ~Has(rec.trace, "decorate.err")
             /\ rec.resolved = Nil
             /\ rec.op[1] = ParsedOperation(c)
             /\ (Returned(c) /\ Has(rec.trace, "validate.ok")) =>
                   /\ Has(rec.trace, "decorate.ok")
                   /\ rec.op[1].Type \in dh.unpublishedOperationTypes => InvokedPut(rec.trace)
                   /\ InvokedAdd(rec.trace) \/ Has(rec.trace, "Put.err")

C19_Witness ==
    \E c, d \in Calls :
       /\ Succeeded(c) /\ call[c].op[1].Type = TypeCreate
       /\ call[c].unpublishedOp # Nil
       /\ Returned(d) /\ call[d].op # Nil /\ call[d].op[1].Type # TypeCreate
       /\ call[d].op[1].UniqueSuffix = call[c].op[1].UniqueSuffix
       /\ call[d].resolved # Nil /\ call[d].resolved[1].Deactivated
       /\ Contains(call[d].err, "has been deactivated")

\* the short-form identifier without the matched namespace and ':' in front
\* and without ':' and the suffix at the end; empty for <matched ns>:<suffix>
HintOfIdentifier ==
    LET body == SubSeq(rd.shortFormDID, Len(rd.ns) + 2, Len(rd.shortFormDID))
    IN  IF Len(body) <= Len(rd.suffix) + 1 THEN <<>>
        ELSE SubSeq(body, 1, Len(body) - Len(rd.suffix) - 1)

\* ResolveDocument resolved the identifier to a model without published
\* operations
ResolvedUnpublished ==
    /\ rd.pc = "done"
    /\ rd.resolved # Nil
    /\ rd.resolved[1].PublishedOperations = 0

\* C20 as claimed: when the resolution has no published operations, the hint
\* in the unpublished transformation info is the short-form identifier less
\* the matched namespace (the alias, when an alias matched) and ':' in front
\* and less ':' and the suffix at the end, empty for <matched ns>:<suffix>,
\* also when alias and primary namespace differ in length.
C20_AsClaimed ==
    ResolvedUnpublished =>
       /\ rd.hint = Some(HintOfIdentifier)
       /\ (~rd.fallback) => rd.ti # Nil /\ rd.ti[1].label = HintOfIdentifier

\* what holds of the hint: it is the one of the claim when the matched name
\* is as long as the primary namespace, and otherwise what GetHint cuts out
\* with the length of the primary namespace
C20_HintByPrimaryLength ==
    ResolvedUnpublished =>
       /\ rd.hint # Nil
       /\ Len(rd.ns) = Len(dh.namespace) => rd.hint = Some(HintOfIdentifier)
       /\ LET from == Len(dh.namespace) + 1
              to == Len(rd.shortFormDID) - Len(rd.suffix) - 1
          IN  rd.hint = Some(IF from > to THEN <<>> ELSE SubSeq(rd.shortFormDID, from + 1, to))
       /\ (~rd.fallback) =>
             /\ rd.ti # Nil
             /\ ~rd.ti[1].published
             /\ rd.ti[1].label = rd.hint[1]
             /\ rd.ti[1].namespace = dh.namespace

\* an alias longer than the primary namespace matched <alias>:<suffix>, and
\* the hint is not empty
C20_Witness ==
    /\ ResolvedUnpublished
    /\ rd.ns # dh.namespace
    /\ Len(rd.ns) > Len(dh.namespace)
    /\ rd.shortFormDID = rd.ns \o <<":">> \o rd.suffix
    /\ rd.hint # Some(<<>>)
    /\ rd.doc # Nil

\* C21: when processor.Resolve succeeds in ResolveDocument, the
\* transformation info built for the identifier is unpublished exactly when
\* the resolution model has no published operations, and published, with the
\* short-form identifier and the resolution model, otherwise; the unpublished
\* one has an empty create-request JCS and the identifier's hint, not the
\* configured label.
C21_KindOfTransformationInfo ==
    (rd.pc = "done" /\ rd.resolved # Nil) =>
       /\ rd.idTi # Nil
       /\ LET rm == rd.resolved[1]
              ti == rd.idTi[1]
          IN  /\ ti.published <=> rm.PublishedOperations # 0
              /\ ti.namespace = dh.namespace
              /\ ti.suffix = rd.suffix
              /\ ti.createRequestJCS = <<>>
              /\ ~ti.published =>
                    /\ rd.hint # Nil
                    /\ ti.label = rd.hint[1]
                    /\ ti.domain = dh.domain
                    /\ ti.internalResult = Nil
              /\ ti.published =>
                    /\ ti.id = rd.shortFormDID
                    /\ ti.internalResult = Some(rm)
                    /\ rd.hint = Nil

C21_Witness ==
    /\ rd.pc = "done"
    /\ rd.resolved # Nil
    /\ rd.resolved[1].PublishedOperations = 0
    /\ dh.label # <<>>
    /\ rd.idTi[1].label # dh.label
    /\ rd.idTi[1].label # <<>>
    /\ rd.doc # Nil

\* the calls made before the long-form fallback, if it was entered
TraceByID ==
    LET at == {i \in DOMAIN rd.trace : rd.trace[i] = "Parse"}
    IN  IF at = {} THEN rd.trace ELSE SubSeq(rd.trace, 1, Min(at) - 1)

\* C22 as claimed: the long-form fallback is entered only when
\* processor.Resolve itself failed with a message containing "not found" and
\* initial state was supplied; when processor.Resolve succeeded, a later
\* failure of hint extraction or transformation is returned to the caller and
\* never starts the fallback, whatever its message.
C22_AsClaimed ==
    rd.pc = "done" =>
       /\ rd.fallback =>
             /\ rd.resolveErr # Nil
             /\ Contains(rd.resolveErr, "not found")
             /\ rd.createReq # Nil
       /\ rd.resolved # Nil =>
             /\ ~rd.fallback
             /\ rd.doc = Nil => rd.err \in TransformerErrors

\* what holds instead: the fallback is entered exactly when initial state was
\* supplied and the error of the resolution by identifier, the processor's or
\* the transformer's, contains "not found"
C22_FallbackOnAnyNotFound ==
    rd.pc = "done" =>
       /\ rd.fallback =>
             /\ rd.createReq # Nil
             /\ \/ rd.resolveErr # Nil /\ Contains(rd.resolveErr, "not found")
                \/ rd.resolved # Nil /\ Last(TraceByID) = "TransformDocument"
       /\ (rd.resolveErr # Nil /\ Contains(rd.resolveErr, "not found") /\ rd.createReq # Nil)
             => rd.fallback
       /\ (rd.resolved # Nil /\ ~rd.fallback /\ rd.doc = Nil) =>
             /\ rd.err \in TransformerErrors
             /\ rd.createReq = Nil \/ ~Contains(rd.err, "not found")

\* the processor resolved the identifier to an anchored, deactivated document
\* and the caller got the document of the initial state
C22_Witness ==
    /\ rd.pc = "done"
    /\ rd.resolved # Nil
    /\ rd.resolved[1].PublishedOperations # 0
    /\ rd.resolved[1].Deactivated
    /\ rd.fallback
    /\ rd.doc # Nil
    /\ rd.err = Nil

\* the Delete calls a trace records
Deletes(tr) == {i \in DOMAIN tr : tr[i] \in {"Delete.ok", "Delete.err"}}

\* the create response of call c failed after its Add succeeded
ResponseFailed(c) ==
    /\ Returned(c)
    /\ Has(call[c].trace, "Add.ok")
    /\ Has(call[c].trace, "response.GetCreateResult")
    /\ call[c].doc = Nil

\* C23 as claimed: a ProcessOperation call invokes the store's Delete at most
\* once, and only after its Put succeeded and its Add then failed; when the
\* create response fails after a successful Add the caller gets an error,
\* the operation stays with the batch writer and its entry stays in the
\* store.
C23_AsClaimed ==
    \A c \in Calls :
       LET rec == call[c]
       IN  /\ Cardinality(Deletes(rec.trace)) <= 1
           /\ \A i \in Deletes(rec.trace) :
                 /\ i >= 3
                 /\ rec.trace[i - 1] = "Add.err"
                 /\ rec.trace[i - 2] = "Put.ok"
           /\ ResponseFailed(c) =>
                 /\ rec.err # Nil
                 /\ Enqueued(c) # {}
                 /\ rec.unpublishedOp # Nil => rec.held = "yes"

\* C23, amended: a ProcessOperation call invokes the store's Delete at most
\* once, and only after its Put succeeded and its Add then failed; when the
\* create response fails after a successful Add the caller gets an error,
\* the operation stays with the batch writer and the call deletes nothing,
\* so the entry it staged stays in the store unless a concurrent call for the
\* same suffix removes it.
C23_DeleteOnlyAfterFailedAdd ==
    \A c \in Calls :
       LET rec == call[c]
       IN  /\ Cardinality(Deletes(rec.trace)) <= 1
           /\ \A i \in Deletes(rec.trace) :
                 /\ i >= 3
                 /\ rec.trace[i - 1] = "Add.err"
                 /\ rec.trace[i - 2] = "Put.ok"
           /\ ResponseFailed(c) =>
                 /\ rec.err \in CreateResultErrors \cup TransformerErrors
                 /\ Deletes(rec.trace) = {}
                 /\ Enqueued(c) = {QueuedOperation(dh, rec.op[1])}
                 /\ (rec.unpublishedOp # Nil /\ c \notin overlap) => rec.held = "yes"

C23_Witness ==
    \E c, d \in Calls :
       /\ ResponseFailed(c)
       /\ call[c].unpublishedOp # Nil
       /\ call[c].held = "yes"
       /\ Returned(d)
       /\ Cardinality(Deletes(call[d].trace)) = 1

\* the Add calls a trace records
Adds(tr) == {i \in DOMAIN tr : tr[i] \in {"Add.ok", "Add.err"}}

\* Add failed in call c and the compensating Delete failed too
CompensationFailed(c) == Returned(c) /\ Has(call[c].trace, "Delete.err")

\* C24 as claimed: when Add fails and the compensating Delete fails too,
\* ProcessOperation returns the batch writer's error and no document, tries
\* neither Delete nor Add again, and the entry remains in the store.
C24_AsClaimed ==
    \A c \in Calls :
       CompensationFailed(c) =>
          /\ call[c].err \in WriterErrors
          /\ call[c].doc = Nil
          /\ Cardinality(Adds(call[c].trace)) = 1
          /\ Cardinality(Deletes(call[c].trace)) = 1
          /\ call[c].held = "yes"

\* C24, amended: when Add fails and the compensating Delete fails too,
\* ProcessOperation returns the batch writer's error and no document, tries
\* neither Delete nor Add again and enqueues nothing; the entry remains in
\* the store unless a concurrent call for the same suffix removed it.
C24_FailedCompensation ==
    \A c \in Calls :
       CompensationFailed(c) =>
          /\ call[c].err \in WriterErrors
          /\ call[c].doc = Nil
          /\ Cardinality(Adds(call[c].trace)) = 1
          /\ Cardinality(Deletes(call[c].trace)) = 1
          /\ Last(call[c].trace) = "Delete.err"
          /\ Enqueued(c) = {}
          /\ c \notin overlap => call[c].held = "yes"

C24_Witness ==
    \E c \in Calls :
       /\ CompensationFailed(c)
       /\ c \notin overlap
       /\ call[c].held = "yes"
       /\ store[call[c].op[1].UniqueSuffix] = call[c].unpublishedOp

\* C25: the suffix ResolveDocument uses is the text after the last ':' of the
\* short-form identifier; when that text is empty the call fails with a bad
\* request, so processor.Resolve is never invoked with an empty suffix.
C25_SuffixAfterLastDelimiter ==
    rd.pc = "done" =>
       /\ Has(rd.trace, "processor.Resolve") =>
             /\ rd.suffix = AfterLastColon(rd.shortFormDID)
             /\ rd.suffix # <<>>
       /\ (rd.shortFormDID # <<>> /\ AfterLastColon(rd.shortFormDID) = <<>>) =>
             /\ rd.err = <<"bad request", ": ", "did suffix is empty">>
             /\ rd.doc = Nil
             /\ rd.trace = <<"protocol.Current", "ParseDID">>

C25_Witness ==
    /\ rd.pc = "done"
    /\ rd.shortFormDID = rd.ns \o <<":">>
    /\ rd.ns # dh.namespace
    /\ IsBadRequest(rd.err)
    /\ ~Has(rd.trace, "processor.Resolve")

\* C26: ResolveDocument invokes neither Put, Delete nor Add on any path, so
\* no step of a ResolveDocument call changes the contents of the unpublished
\* store or of the batch queue, however many calls are made.
C26_ResolveIsReadOnly ==
    /\ [](~InvokedPut(rd.trace) /\ ~InvokedDelete(rd.trace) /\ ~InvokedAdd(rd.trace))
    /\ [][rd' # rd => store' = store /\ batch' = batch]_vars

C26_Witness ==
    /\ rd.pc = "done"
    /\ rd.fallback
    /\ rd.doc # Nil
    /\ batch # {}
    /\ store[rd.suffix] # Nil
    /\ \E c \in Calls : call[c].pc = "response"

\* C27: whenever ResolveDocument calls GetHint (with the primary namespace),
\* the suffix is found in the identifier, GetHint returns a string and no
\* "invalid ID" error, and when it slices the bounds satisfy
\* 0 <= len(namespace)+1 <= p-1 <= len(id), whichever configured name the
\* identifier matched.
C27_HintExtractionIsSafe ==
    (rd.pc = "done" /\ Has(rd.trace, "GetHint")) =>
       LET id == rd.shortFormDID
           from == Len(dh.namespace) + 1
           p == LastIndex(id, rd.suffix)
       IN  /\ p # -1
           /\ rd.hint # Nil
           /\ ~Contains(rd.err, "invalid ID [")
           /\ from <= p - 1 =>
                 /\ 0 <= from
                 /\ p - 1 <= Len(id)
                 /\ rd.hint = Some([i \in 1 .. (p - 1 - from) |-> id[from + i]])
           /\ from > p - 1 => rd.hint = Some(<<>>)

C27_Witness ==
    /\ rd.pc = "done"
    /\ Has(rd.trace, "GetHint")
    /\ Len(rd.ns) > Len(dh.namespace)
    /\ rd.hint # Nil
    /\ rd.hint # Some(<<>>)
    /\ rd.doc # Nil

\* an identifier matched by an alias shorter than the primary namespace: GetHint
\* has nothing to slice
C27_WitnessShorterAlias ==
    /\ rd.pc = "done"
    /\ Has(rd.trace, "GetHint")
    /\ Len(rd.ns) < Len(dh.namespace)
    /\ rd.hint = Some(<<>>)

\* the failures of ProcessOperation the caller is answerable for: the parser,
\* the validator or the decorator refused
CallerFailedIn(c) ==
    \/ Has(call[c].trace, "Parse.err")
    \/ Has(call[c].trace, "validate.err")
    \/ Has(call[c].trace, "decorate.err")

\* the failures of ResolveDocument the caller is answerable for, by the last
\* call the handler made: no configured name matched; ParseDID or getSuffix
\* refused the identifier; the initial state did not parse or was of another
\* suffix; its document could not be composed; its document was invalid
ResolveCallerFailedAt ==
    IF MatchingNames(rd.id) = {} THEN "getNamespace"
    ELSE IF rd.trace = <<"protocol.Current", "ParseDID">> THEN "ParseDID or getSuffix"
    ELSE IF ~rd.fallback \/ rd.doc # Nil THEN "none"
    ELSE IF FallbackTrace = <<"Parse">> THEN "Parse or suffix"
    ELSE IF FallbackTrace = <<"Parse", "GetCreateResult">> THEN "GetCreateResult"
    ELSE IF FallbackTrace[Len(FallbackTrace)] = "IsValidOriginalDocument"
         THEN "IsValidOriginalDocument"
    ELSE "none"

\* C14 as claimed: every caller-attributable failure is returned with a
\* message that starts with "bad request: ": in ProcessOperation a parse,
\* validation or decorator failure; in ResolveDocument a namespace mismatch,
\* an identifier the parser or getSuffix refuses, an initial state that fails
\* to parse or compose, a suffix mismatch, an invalid initial document.
C14_AsClaimed ==
    /\ \A c \in Calls : (Returned(c) /\ CallerFailedIn(c)) => IsBadRequest(call[c].err)
    /\ (rd.pc = "done" /\ ResolveCallerFailedAt # "none") => IsBadRequest(rd.err)

\* the part of C14 that holds: every such failure but that of composing the
\* initial state's document starts with "bad request: "
C14_AllButCompose ==
    /\ \A c \in Calls :
          (Returned(c) /\ CallerFailedIn(c)) =>
             /\ IsBadRequest(call[c].err)
             /\ call[c].doc = Nil
    /\ (rd.pc = "done" /\ ResolveCallerFailedAt \notin {"none", "GetCreateResult"}) =>
          /\ IsBadRequest(rd.err)
          /\ rd.doc = Nil
    /\ (rd.pc = "done" /\ ResolveCallerFailedAt = "GetCreateResult") =>
          /\ rd.err \in CreateResultErrors
          /\ ~IsBadRequest(rd.err)

C14_Witness ==
    /\ rd.pc = "done"
    /\ ResolveCallerFailedAt = "GetCreateResult"
    /\ rd.createReq[1].valid

\* the dependency whose failure ended ProcessOperation call c, if any
FailedDependency(c) ==
    LET rec == call[c]
    IN  IF ~Returned(c) THEN "none"
        ELSE IF Has(rec.trace, "Get.err") THEN "protocol.Get"
        ELSE IF Has(rec.trace, "decorate.err") /\ rec.resolved = Nil THEN "decorator's Resolve"
        ELSE IF Has(rec.trace, "Put.err") THEN "Put"
        ELSE IF Has(rec.trace, "Add.err") THEN "Add"
        ELSE IF Last(rec.trace) = "response.TransformDocument" /\ rec.doc = Nil
             THEN "TransformDocument"
        ELSE "none"

\* the dependency whose failure ended the ResolveDocument call, if any
ResolveFailedDependency ==
    IF rd.pc # "done" \/ MatchingNames(rd.id) = {} THEN "none"
    ELSE IF rd.trace = <<"protocol.Current">> THEN "protocol.Current"
    ELSE IF rd.resolveErr # Nil /\ ~rd.fallback THEN "Resolve"
    ELSE IF ~rd.fallback /\ Last(rd.trace) = "TransformDocument" /\ rd.doc = Nil
         THEN "TransformDocument"
    ELSE IF rd.fallback /\ Last(FallbackTrace) = "TransformDocument" /\ rd.doc = Nil
         THEN "fallback's TransformDocument"
    ELSE "none"

\* the errors the dependencies produce
DependencyErrors ==
    ClientErrors \cup ProcessorErrors \cup StoreErrors \cup WriterErrors \cup TransformerErrors

\* C15 as claimed: every error of a dependency (protocol client, processor,
\* unpublished store, batch writer, transformer) is returned by
\* ProcessOperation and ResolveDocument exactly as the dependency produced it.
C15_AsClaimed ==
    /\ \A c \in Calls : FailedDependency(c) # "none" => call[c].err \in DependencyErrors
    /\ ResolveFailedDependency # "none" => rd.err \in DependencyErrors

\* C15, amended: the errors of protocol.Get and Current, of Add, of the
\* transformer in the create response and in resolution by id, and of Resolve
\* in ResolveDocument are returned as produced; the error of Put is returned
\* inside "failed to add operation for suffix[..] to unpublished operation
\* store: ..", the error of the transformer in the long-form fallback inside
\* "failed to transform create with initial state to external document: ..",
\* and the error of the decorator's Resolve behind "bad request: ".
C15_DependencyErrors ==
    /\ \A c \in Calls :
          LET rec == call[c]
              failed == FailedDependency(c)
          IN  /\ failed = "protocol.Get" => rec.err \in ClientErrors
              /\ failed = "Add" => rec.err \in WriterErrors
              /\ failed = "TransformDocument" => rec.err \in TransformerErrors
              /\ failed = "Put" =>
                    \E e \in StoreErrors :
                       rec.err = <<"failed to add operation for suffix[">>
                                   \o rec.op[1].UniqueSuffix
                                   \o <<"] to unpublished operation store: ">> \o e
              /\ failed = "decorator's Resolve" =>
                    \E e \in ProcessorErrors : rec.err = <<"bad request", ": ">> \o e
              /\ failed # "none" => rec.doc = Nil
    /\ LET failed == ResolveFailedDependency
       IN  /\ failed = "protocol.Current" => rd.err \in ClientErrors
           /\ failed = "Resolve" => rd.err = rd.resolveErr /\ rd.err \in ProcessorErrors
           /\ failed = "TransformDocument" => rd.err \in TransformerErrors
           /\ failed = "fallback's TransformDocument" =>
                 \E e \in TransformerErrors :
                    rd.err = <<"failed to transform create with initial state to external document: ">>
                               \o e
           /\ failed # "none" => rd.doc = Nil

C15_Witness ==
    /\ \E c \in Calls : FailedDependency(c) = "Put"
    /\ ResolveFailedDependency = "fallback's TransformDocument"

\* C16: in every interleaving of ProcessOperation and ResolveDocument calls
\* no step changes a field of the handler: namespace, aliases, domain, label,
\* the unpublished operation types and the collaborators stay as New and its
\* options set them.
C16_HandlerIsReadOnly == [][dh' = dh]_vars

C16_Witness ==
    /\ \E c \in Calls :
          /\ call[c].pc = "add"
          /\ Has(call[c].trace, "Put.ok")
          /\ call[c].unpublishedOp # Nil
    /\ rd.pc = "done"
    /\ rd.doc # Nil
    /\ rd.ns = dh.namespace
    /\ dh.label # <<>>
    /\ dh \in MixedConfigs

(***************************************************************************)
(* Properties of GetHint                                                   *)
(***************************************************************************)
\* the hints of the claim: not empty, no delimiter in them
PlainHints == {h \in HintParts : h # <<>> /\ \A i \in DOMAIN h : h[i] # ":"}

\* C13: GetHint(ns + ":" + hint + ":" + suffix, ns, suffix) is hint for every
\* non-empty hint without ':', and GetHint(ns + ":" + suffix, ns, suffix) is
\* the empty string, both without error.
C13_GetHintRoundTrip ==
    gh.pc = "done" =>
      /\ \A hint \in PlainHints :
            gh.id = gh.namespace \o <<":">> \o hint \o <<":">> \o gh.suffix
               => gh.err = Nil /\ gh.hint = hint
      /\ gh.id = gh.namespace \o <<":">> \o gh.suffix
            => gh.err = Nil /\ gh.hint = <<>>

C13_Witness ==
    /\ gh.pc = "done"
    /\ \E hint \in PlainHints :
          /\ gh.id = gh.namespace \o <<":">> \o hint \o <<":">> \o gh.suffix
          /\ gh.hint = hint
          /\ Occurrences(gh.id, gh.suffix) # {}
          /\ Index(gh.id, gh.suffix) # LastIndex(gh.id, gh.suffix)
    /\ gh.suffix # <<>>
    /\ gh.namespace # <<>>

====
